---- MODULE Spec2Model ----
(***************************************************************************)
(* Task mutation / authorization / notification / real-time dispatch core  *)
(* of the TaskMgr backend: taskService, notificationService, socketService *)
(* and the Socket.IO server module (socketAuthMiddleware, rooms).          *)
(*                                                                         *)
(* Every service call is one action (the whole handler, with the           *)
(* notifications it persists and the events it emits).  Read-only queries  *)
(* (getTaskById, getTasks) are operators over the current state.           *)
(***************************************************************************)
EXTENDS Integers, Sequences, FiniteSets, TLC

\* ------------------------------------------------------------------ bounds
MaxTasks == 1       \* task documents ever created (ObjectIds are never reused)
MaxNotifs == 4      \* notification documents ever created
MaxConns == 2       \* socket slots
MaxListed == 5      \* task documents in the store that getTasks pages through
MaxTime == 2
MaxRequests == 2
MaxAssigned == 3        \* instants of the clock after the first

\* ------------------------------------------------------------ value domains
Users == {"u1", "u2", "u3"}          \* ids of the existing User documents
Undefined == "undefined"             \* JS undefined: the field is absent
Null == "null"                       \* JS null
EmptyString == ""
NoUser == "undefined"                \* assignedToId of a task without assignee

validStatuses == {"TODO", "IN_PROGRESS", "REVIEW", "COMPLETED"}
validPriorities == {"LOW", "MEDIUM", "HIGH", "URGENT"}

\* JS truthiness of the scalar values used here
Truthy(v) == v \notin {Undefined, Null, EmptyString}

\* Titles are sequences of characters so that trim() can be computed.
IsSpace(ch) == ch = " "

RECURSIVE TrimStart(_)
TrimStart(s) ==
    IF s = <<>> THEN <<>>
    ELSE IF IsSpace(Head(s)) THEN TrimStart(Tail(s)) ELSE s

RECURSIVE TrimEnd(_)
TrimEnd(s) ==
    IF s = <<>> THEN <<>>
    ELSE IF IsSpace(s[Len(s)]) THEN TrimEnd(SubSeq(s, 1, Len(s) - 1)) ELSE s

\* String.prototype.trim
Trim(s) == TrimEnd(TrimStart(s))

NoTitle == <<"\\undefined">>         \* title absent from a patch
NoDescription == <<"\\undefined">>   \* description absent

\* -------------------------------------------------------------- the state
VARIABLES
    tasks,          \* Task collection: id -> document
    nextTaskId,     \* next fresh task ObjectId
    notifications,  \* Notification collection: id -> document
    nextNotifId,    \* next fresh notification ObjectId
    io,             \* socket module: TRUE iff `io` holds a server instance
    sockets,        \* connected sockets of the server: slot -> [user, rooms, writable]
    last,           \* outcome of the last call: what it returned and emitted
    now,            \* Date.now(): the instant the clock shows
    arg,            \* the data argument of the last call, where it is recorded
    requests        \* updateTask calls begun one by one: what each read and holds

vars == <<tasks, nextTaskId, notifications, nextNotifId, io, sockets, last, now, arg,
          requests>>

TaskIds == 1..MaxTasks
NotifIds == 1..MaxNotifs
ConnIds == 1..MaxConns

NoDueDate == -1                      \* dueDate absent
NoTask == 0                          \* no task id: createTask threw before Task.create

\* ------------------------------------------------ socketService (emitters)
\* Sockets of the server that are in room `room` (every socket is in the room
\* named by its own socket id and in the rooms it joined).
SocketsIn(room) == {c \in DOMAIN sockets : room \in sockets[c].rooms}

\* Task document as the event payload (toJSON: _id becomes id).
TaskJSON(id, doc) ==
    [id |-> id, title |-> doc.title, description |-> doc.description,
     dueDate |-> doc.dueDate, priority |-> doc.priority, status |-> doc.status,
     creatorId |-> doc.creatorId, assignedToId |-> doc.assignedToId,
     createdAt |-> doc.createdAt, updatedAt |-> doc.updatedAt]

NotificationJSON(id, doc) ==
    [id |-> id, userId |-> doc.userId, type |-> doc.type, title |-> doc.title,
     message |-> doc.message, read |-> doc.read, resourceId |-> doc.resourceId,
     resourceType |-> doc.resourceType]

\* io.emit(name, payload): every socket connected to the server.
BroadcastTargets == DOMAIN sockets

\* The packet is written to the transport of each target without waiting for
\* it: it reaches the sockets whose transport still works.
Reached(targets) == {c \in targets : sockets[c].writable}

\* Variant of emitThrows: getIO() is used without the test for null.
emitThrows_Unguarded(name) == ~io

\* Whether the emitter of event `name` throws to its caller: it returns early
\* when `io` is null, and io.emit / io.to(room).emit return without waiting
\* for any transport.
emitThrows(name) == FALSE

\* What a handler returns after it has persisted its records and called the
\* emitters of `names`: an exception of an emitter is not caught.
AfterEmit(names) ==
    IF \E name \in names : emitThrows(name) THEN "DispatchError" ELSE "ok"

\* Variant of emitTaskUpdated: sent to the rooms of the task's creator and
\* assignee only.
emitTaskUpdated_ToStakeholders(id, doc) ==
    IF ~io THEN <<>>
    ELSE <<[name |-> "task:updated", room |-> "*", payload |-> TaskJSON(id, doc),
            delivered |-> Reached(SocketsIn(doc.creatorId) \cup SocketsIn(doc.assignedToId))]>>

\* Variant of emitNotification: io.emit instead of io.to(userId).emit.
emitNotification_Broadcast(id, doc) ==
    IF ~io THEN <<>>
    ELSE <<[name |-> "notification:new", room |-> "*",
            payload |-> NotificationJSON(id, doc),
            delivered |-> Reached(BroadcastTargets)]>>

\* emitTaskCreated: nothing when `io` is null, else a broadcast.
emitTaskCreated(id, doc) ==
    IF ~io THEN <<>>
    ELSE <<[name |-> "task:created", room |-> "*", payload |-> TaskJSON(id, doc),
            delivered |-> Reached(BroadcastTargets)]>>

emitTaskUpdated(id, doc) ==
    IF ~io THEN <<>>
    ELSE <<[name |-> "task:updated", room |-> "*", payload |-> TaskJSON(id, doc),
            delivered |-> Reached(BroadcastTargets)]>>

\* Variant of emitTaskDeleted: the payload is the deleted task.
emitTaskDeleted_WholeTask(id) ==
    IF ~io THEN <<>>
    ELSE <<[name |-> "task:deleted", room |-> "*",
            payload |-> TaskJSON(id, tasks[id]),
            delivered |-> Reached(BroadcastTargets)]>>

emitTaskDeleted(id) ==
    IF ~io THEN <<>>
    ELSE <<[name |-> "task:deleted", room |-> "*", payload |-> [taskId |-> id],
            delivered |-> Reached(BroadcastTargets)]>>

\* emitNotification: io.to(userId).emit, the room named by the recipient's id.
emitNotification(id, doc) ==
    IF ~io THEN <<>>
    ELSE <<[name |-> "notification:new", room |-> doc.userId,
            payload |-> NotificationJSON(id, doc),
            delivered |-> Reached(SocketsIn(doc.userId))]>>

\* ------------------------------------------------------ notificationService
\* The document createNotification persists for `data` (read: false).
NotificationDoc(data) ==
    [userId |-> data.userId, type |-> data.type, title |-> data.title,
     message |-> data.message, read |-> FALSE,
     resourceId |-> data.resourceId, resourceType |-> data.resourceType]

\* createNotification called for each element of `datas` in order, starting
\* from store `store` and fresh id `nid`: the store afterwards.
RECURSIVE PersistAll(_, _, _)
PersistAll(store, nid, datas) ==
    IF datas = <<>> THEN store
    ELSE PersistAll((nid :> NotificationDoc(Head(datas))) @@ store,
                    nid + 1, Tail(datas))

\* ... and the notification:new events it emits, in order.
RECURSIVE EmitAll(_, _)
EmitAll(nid, datas) ==
    IF datas = <<>> THEN <<>>
    ELSE emitNotification(nid, NotificationDoc(Head(datas)))
         \o EmitAll(nid + 1, Tail(datas))

\* ... and the ids it allocated, in order.
NewIds(nid, datas) == [i \in 1..Len(datas) |-> nid + i - 1]

\* createNotification(data) called on its own.
createNotification(data) ==
    /\ nextNotifId <= MaxNotifs
    /\ notifications' = PersistAll(notifications, nextNotifId, <<data>>)
    /\ nextNotifId' = nextNotifId + 1
    /\ last' = [op |-> "createNotification", userId |-> data.userId,
                result |-> AfterEmit({"notification:new"}),
                notifs |-> NewIds(nextNotifId, <<data>>),
                events |-> EmitAll(nextNotifId, <<data>>)]
    /\ UNCHANGED <<tasks, nextTaskId, io, sockets>>

\* Variant of ownsNotification: no ownership test.
ownsNotification_Anyone(doc, userId) == TRUE

\* notification.userId.equals(userObjectId) of markAsRead / deleteNotification.
ownsNotification(doc, userId) == doc.userId = userId

\* What markAsRead and deleteNotification throw: NotFoundError,
\* AuthorizationError, or "ok".
notificationAccess(notificationId, userId) ==
    IF notificationId \notin DOMAIN notifications THEN "NotFound"
    ELSE IF ~ownsNotification(notifications[notificationId], userId)
    THEN "Authorization"
    ELSE "ok"

\* The outcome record of a call on one notification.
NotifOutcome(op, userId, notificationId, result) ==
    [op |-> op, userId |-> userId, notifId |-> notificationId,
     result |-> result, notifs |-> <<>>, events |-> <<>>]

\* Variant of markAsRead: read is toggled.
markAsRead_Toggles(notificationId, userId) ==
    LET r == notificationAccess(notificationId, userId) IN
    /\ notifications' =
          IF r = "ok"
          THEN [notifications EXCEPT
                   ![notificationId].read = ~notifications[notificationId].read]
          ELSE notifications
    /\ last' = NotifOutcome("markAsRead", userId, notificationId, r)
    /\ UNCHANGED <<tasks, nextTaskId, nextNotifId, io, sockets>>

\* markAsRead(notificationId, userId)
markAsRead(notificationId, userId) ==
    LET r == notificationAccess(notificationId, userId) IN
    /\ notifications' =
          IF r = "ok"
          THEN [notifications EXCEPT ![notificationId].read = TRUE]
          ELSE notifications
    /\ last' = NotifOutcome("markAsRead", userId, notificationId, r)
    /\ UNCHANGED <<tasks, nextTaskId, nextNotifId, io, sockets>>

\* Variant of Unread: the filter of updateMany without read: false.
Unread_Matched(userId) ==
    {n \in DOMAIN notifications : notifications[n].userId = userId}

\* The documents the filter { userId, read: false } of updateMany selects.
Unread(userId) ==
    {n \in DOMAIN notifications :
        notifications[n].userId = userId /\ ~notifications[n].read}

\* markAllAsRead(userId): count is modifiedCount.  `again` records that the
\* call before this one was markAllAsRead for the same user.
markAllAsRead(userId) ==
    /\ notifications' =
          [n \in DOMAIN notifications |->
              IF n \in Unread(userId)
              THEN [notifications[n] EXCEPT !.read = TRUE]
              ELSE notifications[n]]
    /\ last' = [op |-> "markAllAsRead", userId |-> userId, result |-> "ok",
                count |-> Cardinality(Unread(userId)),
                again |-> (last.op = "markAllAsRead" /\ last.userId = userId),
                notifs |-> <<>>, events |-> <<>>]
    /\ UNCHANGED <<tasks, nextTaskId, nextNotifId, io, sockets>>

\* deleteNotification(notificationId, userId)
deleteNotification(notificationId, userId) ==
    LET r == notificationAccess(notificationId, userId) IN
    /\ notifications' =
          IF r = "ok"
          THEN [n \in DOMAIN notifications \ {notificationId} |-> notifications[n]]
          ELSE notifications
    /\ last' = NotifOutcome("deleteNotification", userId, notificationId, r)
    /\ UNCHANGED <<tasks, nextTaskId, nextNotifId, io, sockets>>

\* ----------------------------------------------------------- Task schema
\* Mongoose validation of a Task document before it is written: title is
\* required (an empty string does not satisfy `required`), priority and
\* status must be in their enum.
SchemaValid(doc) ==
    /\ doc.title # <<>>
    /\ doc.priority \in validPriorities
    /\ doc.status \in validStatuses

\* The outcome record of a call that emitted and persisted nothing.
Outcome(op, userId, taskId, result) ==
    [op |-> op, userId |-> userId, taskId |-> taskId, result |-> result,
     notifs |-> <<>>, events |-> <<>>]

\* Variant of CreateNotifs: the assignee is notified even when it is the creator.
CreateNotifs_SelfToo(userId, data, id, doc) ==
    IF Truthy(data.assignedToId)
    THEN <<[userId |-> data.assignedToId, type |-> "TASK_ASSIGNED",
            title |-> "New Task Assigned",
            message |-> [by |-> doc.creatorId, about |-> doc.title],
            resourceId |-> id, resourceType |-> "TASK"]>>
    ELSE <<>>

\* ------------------------------------------------------------ taskService
\* createTask(userId, data)
CreateNotifs(userId, data, id, doc) ==
    IF Truthy(data.assignedToId) /\ data.assignedToId # userId
    THEN <<[userId |-> data.assignedToId, type |-> "TASK_ASSIGNED",
            title |-> "New Task Assigned",
            message |-> [by |-> doc.creatorId, about |-> doc.title],
            resourceId |-> id, resourceType |-> "TASK"]>>
    ELSE <<>>

CreateDoc(userId, data) ==
    [title |-> Trim(data.title),
     creatorId |-> userId,
     description |-> data.description,
     dueDate |-> data.dueDate,
     priority |-> IF data.priority # Undefined THEN data.priority ELSE "MEDIUM",
     status |-> IF data.status # Undefined THEN data.status ELSE "TODO",
     assignedToId |-> IF data.assignedToId # Undefined THEN data.assignedToId
                      ELSE NoUser,
     createdAt |-> now,
     updatedAt |-> now]

\* What createTask throws for `data`, "ok" when it returns the task:
\* ValidationError for a missing or blank title, the error of Task.create
\* when the schema rejects the document.
createTaskThrows(userId, data) ==
    IF data.title = NoTitle \/ Trim(data.title) = <<>> THEN "Validation"
    ELSE IF ~SchemaValid(CreateDoc(userId, data)) THEN "Error"
    ELSE "ok"

createTask(userId, data) ==
    LET r == createTaskThrows(userId, data) IN
    IF r # "ok"
    THEN /\ last' = Outcome("createTask", userId, NoTask, r)
         /\ UNCHANGED <<tasks, nextTaskId, notifications, nextNotifId, io, sockets>>
    ELSE LET doc == CreateDoc(userId, data)
             id == nextTaskId
             ns == CreateNotifs(userId, data, id, doc)
         IN  /\ nextTaskId <= MaxTasks
             /\ nextNotifId + Len(ns) - 1 <= MaxNotifs
             /\ tasks' = (id :> doc) @@ tasks
             /\ nextTaskId' = nextTaskId + 1
             /\ notifications' = PersistAll(notifications, nextNotifId, ns)
             /\ nextNotifId' = nextNotifId + Len(ns)
             /\ last' = [op |-> "createTask", userId |-> userId, taskId |-> id,
                         result |-> AfterEmit({"task:created"} \cup
                                       IF ns = <<>> THEN {}
                                       ELSE {"notification:new"}),
                         notifs |-> NewIds(nextNotifId, ns),
                         events |-> EmitAll(nextNotifId, ns)
                                    \o emitTaskCreated(id, doc)]
             /\ UNCHANGED <<io, sockets>>

\* createTask when the store rejects the write of its notification: the
\* promise of Notification.create rejects after Task.create has resolved.
\* Neither createNotification nor createTask catches, so createTask throws
\* before emitNotification and emitTaskCreated are reached.
createTaskRejected(userId, data) ==
    LET doc == CreateDoc(userId, data)
        id == nextTaskId
        ns == CreateNotifs(userId, data, id, doc)
    IN  /\ createTaskThrows(userId, data) = "ok"
        /\ ns # <<>>
        /\ nextTaskId <= MaxTasks
        /\ tasks' = (id :> doc) @@ tasks
        /\ nextTaskId' = nextTaskId + 1
        /\ last' = Outcome("createTask", userId, id, "Error")
        /\ UNCHANGED <<notifications, nextNotifId, io, sockets>>

\* Access predicates of getTaskById / updateTask / deleteTask.
isCreator(doc, userId) == doc.creatorId = userId

isAssignee(doc, userId) ==
    Truthy(doc.assignedToId) /\ doc.assignedToId = userId

\* Variant of canAccess: any task that has an assignee is open to everyone.
canAccess_AnyAssigned(doc, userId) ==
    isCreator(doc, userId) \/ Truthy(doc.assignedToId)

\* Variant of canDelete: the assignee may delete too.
canDelete_AssigneeToo(doc, userId) ==
    isCreator(doc, userId) \/ isAssignee(doc, userId)

\* getTaskById: !isCreator && !isAssignee throws AuthorizationError.
canAccess(doc, userId) == isCreator(doc, userId) \/ isAssignee(doc, userId)

\* Variant of canModify: a task that has an assignee is the assignee's alone.
canModify_AssigneeOnly(doc, userId) ==
    IF Truthy(doc.assignedToId) THEN isAssignee(doc, userId)
    ELSE isCreator(doc, userId)

\* updateTask: the same test on the unpopulated document.
canModify(doc, userId) == isCreator(doc, userId) \/ isAssignee(doc, userId)

\* deleteTask: !isCreator throws AuthorizationError.
canDelete(doc, userId) == isCreator(doc, userId)

\* updateTask's own check of the patch: a truthy status / priority outside the
\* list throws ValidationError (a falsy one is not looked at).
PatchRejected(data) ==
    \/ Truthy(data.status) /\ data.status \notin validStatuses
    \/ Truthy(data.priority) /\ data.priority \notin validPriorities

\* assignmentChanged of updateTask (oldAssignedToId is undefined without assignee).
assignmentChanged(doc, data) ==
    data.assignedToId # Undefined /\ doc.assignedToId # data.assignedToId

\* Variant of ApplyPatch: a reassignment hands the task over, creatorId included.
ApplyPatch_HandsOver(doc, data) ==
    [title |-> IF data.title # NoTitle THEN Trim(data.title) ELSE doc.title,
     description |-> IF data.description # NoDescription THEN data.description
                     ELSE doc.description,
     dueDate |-> IF data.dueDate # NoDueDate THEN data.dueDate ELSE doc.dueDate,
     priority |-> IF data.priority # Undefined THEN data.priority ELSE doc.priority,
     status |-> IF data.status # Undefined THEN data.status ELSE doc.status,
     creatorId |-> IF Truthy(data.assignedToId) THEN data.assignedToId
                   ELSE doc.creatorId,
     assignedToId |-> IF data.assignedToId # Undefined
                      THEN (IF Truthy(data.assignedToId) THEN data.assignedToId
                            ELSE NoUser)
                      ELSE doc.assignedToId,
     createdAt |-> doc.createdAt,
     updatedAt |-> doc.updatedAt]

\* Variant of ApplyPatch: the document is replaced by the patch, a description
\* that is absent from the patch is cleared.
ApplyPatch_Replaces(doc, data) ==
    [title |-> IF data.title # NoTitle THEN Trim(data.title) ELSE doc.title,
     description |-> data.description,
     dueDate |-> IF data.dueDate # NoDueDate THEN data.dueDate ELSE doc.dueDate,
     priority |-> IF data.priority # Undefined THEN data.priority ELSE doc.priority,
     status |-> IF data.status # Undefined THEN data.status ELSE doc.status,
     creatorId |-> doc.creatorId,
     assignedToId |-> IF data.assignedToId # Undefined
                      THEN (IF Truthy(data.assignedToId) THEN data.assignedToId
                            ELSE NoUser)
                      ELSE doc.assignedToId,
     createdAt |-> doc.createdAt,
     updatedAt |-> doc.updatedAt]

\* The fields updateTask assigns: only those present in the patch.
ApplyPatch(doc, data) ==
    [title |-> IF data.title # NoTitle THEN Trim(data.title) ELSE doc.title,
     description |-> IF data.description # NoDescription THEN data.description
                     ELSE doc.description,
     dueDate |-> IF data.dueDate # NoDueDate THEN data.dueDate ELSE doc.dueDate,
     priority |-> IF data.priority # Undefined THEN data.priority ELSE doc.priority,
     status |-> IF data.status # Undefined THEN data.status ELSE doc.status,
     creatorId |-> doc.creatorId,
     assignedToId |-> IF data.assignedToId # Undefined
                      THEN (IF Truthy(data.assignedToId) THEN data.assignedToId
                            ELSE NoUser)
                      ELSE doc.assignedToId,
     createdAt |-> doc.createdAt,
     updatedAt |-> doc.updatedAt]

\* task.save() with timestamps: true: the pre-save hook sets updatedAt to the
\* current instant when a path of the document is modified, that is when an
\* assigned value differs from the value read; an unmodified document is
\* written back as it is.
save(old, doc) ==
    IF doc # old THEN [doc EXCEPT !.updatedAt = now] ELSE doc

\* Variant of write: the whole document held in memory is written.
write_WholeDocument(stored, read, doc) == doc

\* What task.save() writes to the collection: the paths of the document that
\* are modified, that is whose value differs from the value read, and
\* updatedAt when any path is; the other paths stay as they are stored.  With
\* stored = read, as in a call that runs alone, the result is doc.
write(stored, read, doc) ==
    [f \in DOMAIN stored |->
        IF f = "updatedAt"
        THEN (IF doc # read THEN doc.updatedAt ELSE stored.updatedAt)
        ELSE (IF doc[f] # read[f] THEN doc[f] ELSE stored[f])]

\* Variant of AssignedNotifs: a patch that repeats the assignee notifies too.
AssignedNotifs_Repeats(userId, data, id, old, new) ==
    IF /\ data.assignedToId # Undefined
       /\ Truthy(data.assignedToId)
       /\ data.assignedToId # userId
    THEN <<[userId |-> data.assignedToId, type |-> "TASK_ASSIGNED",
            title |-> "Task Assigned to You",
            message |-> [by |-> userId, about |-> new.title],
            resourceId |-> id, resourceType |-> "TASK"]>>
    ELSE <<>>

\* The TASK_ASSIGNED notification of an update, if any.
AssignedNotifs(userId, data, id, old, new) ==
    IF /\ assignmentChanged(old, data)
       /\ Truthy(data.assignedToId)
       /\ data.assignedToId # userId
    THEN <<[userId |-> data.assignedToId, type |-> "TASK_ASSIGNED",
            title |-> "Task Assigned to You",
            message |-> [by |-> userId, about |-> new.title],
            resourceId |-> id, resourceType |-> "TASK"]>>
    ELSE <<>>

\* Variant of notifyUserIds: an array instead of a Set, duplicates kept.
notifyUserIds_Array(userId, new) ==
    LET c == IF new.creatorId # userId THEN <<new.creatorId>> ELSE <<>>
        a == IF Truthy(new.assignedToId) /\ new.assignedToId # userId
             THEN <<new.assignedToId>> ELSE <<>>
    IN  c \o a

\* notifyUserIds of updateTask: a Set filled with the saved task's creator and
\* then its assignee, each unless it is the updater (insertion order, no
\* duplicates).
notifyUserIds(userId, new) ==
    LET c == IF new.creatorId # userId THEN <<new.creatorId>> ELSE <<>>
        a == IF /\ Truthy(new.assignedToId)
                /\ new.assignedToId # userId
                /\ new.assignedToId \notin {c[i] : i \in 1..Len(c)}
             THEN <<new.assignedToId>> ELSE <<>>
    IN  c \o a

UpdatedNotifs(userId, id, new) ==
    LET to == notifyUserIds(userId, new)
    IN  [i \in 1..Len(to) |->
            [userId |-> to[i], type |-> "TASK_UPDATED", title |-> "Task Updated",
             message |-> [by |-> userId, about |-> new.title],
             resourceId |-> id, resourceType |-> "TASK"]]

\* Variant of UpdateNotifs: the TASK_UPDATED recipients are those of the task
\* as it was read.
UpdateNotifs_FromRead(userId, data, id, old, new) ==
    AssignedNotifs(userId, data, id, old, new) \o UpdatedNotifs(userId, id, old)

\* Variant of UpdateNotifs: the TASK_UPDATED notifications come first.
UpdateNotifs_UpdatedFirst(userId, data, id, old, new) ==
    UpdatedNotifs(userId, id, new) \o AssignedNotifs(userId, data, id, old, new)

\* Every notification updateTask creates, in the order it creates them.
UpdateNotifs(userId, data, id, old, new) ==
    AssignedNotifs(userId, data, id, old, new) \o UpdatedNotifs(userId, id, new)

\* Variant of updateTaskThrows: the patch is checked before the caller.
updateTaskThrows_ValidatesFirst(taskId, userId, data) ==
    IF taskId \notin DOMAIN tasks THEN "NotFound"
    ELSE IF PatchRejected(data) THEN "Validation"
    ELSE IF ~canModify(tasks[taskId], userId) THEN "Authorization"
    ELSE IF ~SchemaValid(ApplyPatch(tasks[taskId], data)) THEN "Error"
    ELSE "ok"

\* What updateTask throws, in the order of its checks: NotFoundError,
\* AuthorizationError, ValidationError, then the error of task.save() when the
\* schema rejects the patched document; "ok" when it returns the task.
updateTaskThrows(taskId, userId, data) ==
    IF taskId \notin DOMAIN tasks THEN "NotFound"
    ELSE IF ~canModify(tasks[taskId], userId) THEN "Authorization"
    ELSE IF PatchRejected(data) THEN "Validation"
    ELSE IF ~SchemaValid(ApplyPatch(tasks[taskId], data)) THEN "Error"
    ELSE "ok"

\* updateTask(taskId, userId, data)
updateTask(taskId, userId, data) ==
    LET r == updateTaskThrows(taskId, userId, data) IN
    IF r # "ok"
    THEN /\ last' = Outcome("updateTask", userId, taskId, r)
         /\ UNCHANGED <<tasks, nextTaskId, notifications, nextNotifId, io, sockets>>
    ELSE LET old == tasks[taskId]
             new == save(old, ApplyPatch(old, data))
             ns == UpdateNotifs(userId, data, taskId, old, new)
         IN  /\ nextNotifId + Len(ns) - 1 <= MaxNotifs
             /\ tasks' = [tasks EXCEPT ![taskId] = new]
             /\ notifications' = PersistAll(notifications, nextNotifId, ns)
             /\ nextNotifId' = nextNotifId + Len(ns)
             /\ last' = [op |-> "updateTask", userId |-> userId,
                         taskId |-> taskId,
                         result |-> AfterEmit({"task:updated"} \cup
                                       IF ns = <<>> THEN {}
                                       ELSE {"notification:new"}),
                         notifs |-> NewIds(nextNotifId, ns),
                         events |-> EmitAll(nextNotifId, ns)
                                    \o emitTaskUpdated(taskId, new)]
             /\ UNCHANGED <<nextTaskId, io, sockets>>

\* updateTask when the store rejects the write of its k-th notification,
\* after task.save() has resolved: the notifications before the k-th are
\* stored and emitted, updateTask throws before emitTaskUpdated is reached.
updateTaskRejected(taskId, userId, data, k) ==
    /\ updateTaskThrows(taskId, userId, data) = "ok"
    /\ LET old == tasks[taskId]
           new == save(old, ApplyPatch(old, data))
           ns == UpdateNotifs(userId, data, taskId, old, new)
           done == SubSeq(ns, 1, k - 1)
       IN  /\ k \in 1..Len(ns)
           /\ nextNotifId + Len(done) - 1 <= MaxNotifs
           /\ tasks' = [tasks EXCEPT ![taskId] = new]
           /\ notifications' = PersistAll(notifications, nextNotifId, done)
           /\ nextNotifId' = nextNotifId + Len(done)
           /\ last' = [op |-> "updateTask", userId |-> userId,
                       taskId |-> taskId, result |-> "Error",
                       notifs |-> NewIds(nextNotifId, done),
                       events |-> EmitAll(nextNotifId, done)]
           /\ UNCHANGED <<nextTaskId, io, sockets>>

\* updateTask up to `await task.save()`: the task is read, the caller and the
\* patch are checked, the patch is assigned to the document in memory and the
\* pre-save hook stamps it.  Other calls run before the write reaches the
\* collection.
beginUpdate(taskId, userId, data) ==
    LET r == updateTaskThrows(taskId, userId, data) IN
    /\ Len(requests) < MaxRequests
    /\ IF r # "ok"
       THEN /\ last' = Outcome("updateTask", userId, taskId, r)
            /\ UNCHANGED requests
       ELSE /\ requests' = Append(requests,
                   [taskId |-> taskId, userId |-> userId, data |-> data,
                    read |-> tasks[taskId],
                    doc |-> save(tasks[taskId], ApplyPatch(tasks[taskId], data)),
                    readAfter |-> Cardinality({q \in DOMAIN requests :
                                                 requests[q].wrote # 0}),
                    wrote |-> 0, returned |-> FALSE])
            /\ UNCHANGED last
    /\ UNCHANGED <<tasks, nextTaskId, notifications, nextNotifId, io, sockets>>

\* updateTask from the write of `await task.save()` to its return: the
\* modified paths are written, then the notifications are created and the
\* document held in memory is emitted and returned.  `wrote` numbers the
\* writes in their order.
finishUpdate(r) ==
    LET rec == requests[r]
        ns == UpdateNotifs(rec.userId, rec.data, rec.taskId, rec.read, rec.doc)
    IN  /\ rec.wrote = 0
        /\ rec.taskId \in DOMAIN tasks
        /\ nextNotifId + Len(ns) - 1 <= MaxNotifs
        /\ tasks' = [tasks EXCEPT
                        ![rec.taskId] = write(tasks[rec.taskId], rec.read, rec.doc)]
        /\ requests' = [requests EXCEPT
                           ![r].wrote = 1 + Cardinality({q \in DOMAIN requests :
                                                          requests[q].wrote # 0}),
                           ![r].returned = TRUE]
        /\ notifications' = PersistAll(notifications, nextNotifId, ns)
        /\ nextNotifId' = nextNotifId + Len(ns)
        /\ last' = [op |-> "updateTask", userId |-> rec.userId,
                    taskId |-> rec.taskId,
                    result |-> AfterEmit({"task:updated"} \cup
                                  IF ns = <<>> THEN {}
                                  ELSE {"notification:new"}),
                    notifs |-> NewIds(nextNotifId, ns),
                    events |-> EmitAll(nextNotifId, ns)
                               \o emitTaskUpdated(rec.taskId, rec.doc)]
        /\ UNCHANGED <<nextTaskId, io, sockets>>

\* `await task.save()` of an updateTask call in flight, on its own: the
\* modified paths are written to the stored document; when the document is
\* no longer in the collection save() rejects and updateTask throws.  The
\* call then awaits the populates and the updater's name, during which other
\* calls run.
saveUpdate(r) ==
    LET rec == requests[r] IN
    /\ rec.wrote = 0
    /\ ~rec.returned
    /\ IF rec.taskId \in DOMAIN tasks
       THEN /\ tasks' = [tasks EXCEPT
                           ![rec.taskId] = write(tasks[rec.taskId], rec.read, rec.doc)]
            /\ requests' = [requests EXCEPT
                               ![r].wrote = 1 + Cardinality({q \in DOMAIN requests :
                                                              requests[q].wrote # 0})]
            /\ UNCHANGED last
       ELSE /\ requests' = [requests EXCEPT ![r].returned = TRUE]
            /\ last' = Outcome("updateTask", rec.userId, rec.taskId, "Error")
            /\ UNCHANGED tasks
    /\ UNCHANGED <<nextTaskId, notifications, nextNotifId, io, sockets>>

\* updateTask after its save and populates: the notifications are created
\* from the document held in memory, which is then emitted and returned.
completeUpdate(r) ==
    LET rec == requests[r]
        ns == UpdateNotifs(rec.userId, rec.data, rec.taskId, rec.read, rec.doc)
    IN  /\ rec.wrote # 0
        /\ ~rec.returned
        /\ nextNotifId + Len(ns) - 1 <= MaxNotifs
        /\ requests' = [requests EXCEPT ![r].returned = TRUE]
        /\ notifications' = PersistAll(notifications, nextNotifId, ns)
        /\ nextNotifId' = nextNotifId + Len(ns)
        /\ last' = [op |-> "updateTask", userId |-> rec.userId,
                    taskId |-> rec.taskId,
                    result |-> AfterEmit({"task:updated"} \cup
                                  IF ns = <<>> THEN {}
                                  ELSE {"notification:new"}),
                    notifs |-> NewIds(nextNotifId, ns),
                    events |-> EmitAll(nextNotifId, ns)
                               \o emitTaskUpdated(rec.taskId, rec.doc)]
        /\ UNCHANGED <<tasks, nextTaskId, io, sockets>>

\* What deleteTask throws: NotFoundError, AuthorizationError, or "ok".
deleteTaskThrows(taskId, userId) ==
    IF taskId \notin DOMAIN tasks THEN "NotFound"
    ELSE IF ~canDelete(tasks[taskId], userId) THEN "Authorization"
    ELSE "ok"

\* deleteTask(taskId, userId)
deleteTask(taskId, userId) ==
    LET r == deleteTaskThrows(taskId, userId) IN
    IF r # "ok"
    THEN /\ last' = Outcome("deleteTask", userId, taskId, r)
         /\ UNCHANGED <<tasks, nextTaskId, notifications, nextNotifId, io, sockets>>
    ELSE /\ tasks' = [t \in DOMAIN tasks \ {taskId} |-> tasks[t]]
         /\ last' = [op |-> "deleteTask", userId |-> userId, taskId |-> taskId,
                     result |-> AfterEmit({"task:deleted"}), notifs |-> <<>>,
                     events |-> emitTaskDeleted(taskId)]
         /\ UNCHANGED <<nextTaskId, notifications, nextNotifId, io, sockets>>

\* getTaskById(taskId, userId): the error it throws, or "ok".
getTaskById(taskId, userId) ==
    IF taskId \notin DOMAIN tasks THEN "NotFound"
    ELSE IF ~canAccess(tasks[taskId], userId)
    THEN "Authorization"
    ELSE "ok"

\* getTasks(userId, filters, pagination) ------------------------------------
Lower(ch) == CASE ch = "A" -> "a" [] ch = "B" -> "b" [] OTHER -> ch

\* { $regex: search, $options: 'i' } for a literal search text: a
\* case-insensitive substring match.
Contains(hay, needle) ==
    \E i \in 1..(Len(hay) - Len(needle) + 1) :
        \A j \in 1..Len(needle) : Lower(hay[i + j - 1]) = Lower(needle[j])

\* The query document of getTasks applied to one task.
Matches(doc, userId, filters) ==
    /\ doc.creatorId = userId \/ doc.assignedToId = userId
    /\ Truthy(filters.status) => doc.status = filters.status
    /\ Truthy(filters.priority) => doc.priority = filters.priority
    /\ filters.search # <<>> =>
          \/ Contains(doc.title, filters.search)
          \/ doc.description # NoDescription
             /\ Contains(doc.description, filters.search)

\* sort({ createdAt: -1 }): ids are allocated in creation order.
RECURSIVE NewestFirst(_)
NewestFirst(S) ==
    IF S = {} THEN <<>>
    ELSE LET m == CHOOSE x \in S : \A y \in S : y <= x
         IN  <<m>> \o NewestFirst(S \ {m})

Min(a, b) == IF a <= b THEN a ELSE b

\* Variant of getTasks: skip computed as page * limit.
getTasks_SkipsFirstPage(userId, filters, pagination) ==
    LET matching == {t \in DOMAIN tasks : Matches(tasks[t], userId, filters)}
        sorted == NewestFirst(matching)
        skip == pagination.page * pagination.limit
        total == Cardinality(matching)
    IN  [items |-> SubSeq(sorted, skip + 1, Min(skip + pagination.limit, total)),
         total |-> total,
         page |-> pagination.page,
         limit |-> pagination.limit,
         totalPages |-> (total + pagination.limit - 1) \div pagination.limit]

getTasks(userId, filters, pagination) ==
    LET matching == {t \in DOMAIN tasks : Matches(tasks[t], userId, filters)}
        sorted == NewestFirst(matching)
        skip == (pagination.page - 1) * pagination.limit
        total == Cardinality(matching)
    IN  [items |-> SubSeq(sorted, skip + 1, Min(skip + pagination.limit, total)),
         total |-> total,
         page |-> pagination.page,
         limit |-> pagination.limit,
         totalPages |-> (total + pagination.limit - 1) \div pagination.limit]

\* getAssignedTasks(userId) ------------------------------------------------
\* The order of two priority values under sort({ priority: -1 }): priority is
\* a String path, so the values compare as strings, character by character.
StringOrder(priority) ==
    CASE priority = "HIGH" -> 1
      [] priority = "LOW" -> 2
      [] priority = "MEDIUM" -> 3
      [] priority = "URGENT" -> 4

\* sort({ priority: -1, dueDate: 1 }): the greater priority string first, then
\* the earlier dueDate, a document without dueDate before every date; ids
\* (creation order) decide among equal keys.
SortsBefore(a, b) ==
    LET pa == StringOrder(tasks[a].priority)
        pb == StringOrder(tasks[b].priority)
        da == IF tasks[a].dueDate = NoDueDate THEN -1 ELSE tasks[a].dueDate
        db == IF tasks[b].dueDate = NoDueDate THEN -1 ELSE tasks[b].dueDate
    IN  \/ pa > pb
        \/ pa = pb /\ da < db
        \/ pa = pb /\ da = db /\ a < b

\* getAssignedTasks(userId): the ids of the tasks found, in the order returned.
getAssignedTasks(userId) ==
    LET found == {t \in DOMAIN tasks : tasks[t].assignedToId = userId}
        place(t) == 1 + Cardinality({o \in found : SortsBefore(o, t)})
    IN  [i \in 1..Cardinality(found) |-> CHOOSE t \in found : place(t) = i]

\* ---------------------------------------------------------------- sockets
\* A value found at handshake.auth.token / handshake.query.token.
NoPayload == [userId |-> "", email |-> "", role |-> ""]
TUndefined == [js |-> "undefined", jwt |-> "none", payload |-> NoPayload]
TNull == [js |-> "null", jwt |-> "none", payload |-> NoPayload]
TNumber == [js |-> "number", jwt |-> "none", payload |-> NoPayload]
TZero == [js |-> "zero", jwt |-> "none", payload |-> NoPayload]
TEmpty == [js |-> "string", jwt |-> "empty", payload |-> NoPayload]
TMalformed == [js |-> "string", jwt |-> "malformed", payload |-> NoPayload]
TExpired(p) == [js |-> "string", jwt |-> "expired", payload |-> p]
TValid(p) == [js |-> "string", jwt |-> "valid", payload |-> p]

\* a || b on handshake values: undefined, null, 0 and '' are falsy, 12345 is not.
JsTruthy(v) ==
    ~(v.js \in {"undefined", "null", "zero"} \/ (v.js = "string" /\ v.jwt = "empty"))

\* Variant of verifyToken: jwt.verify with ignoreExpiration.
verifyToken_IgnoresExpiry(token) ==
    CASE token.jwt \in {"valid", "expired"} ->
            [ok |-> TRUE, decoded |-> token.payload, message |-> ""]
      [] OTHER -> [ok |-> FALSE, decoded |-> NoPayload, message |-> "Invalid token"]

\* verifyToken(token): the decoded payload, or the message of the Error thrown.
verifyToken(token) ==
    CASE token.jwt = "valid" -> [ok |-> TRUE, decoded |-> token.payload, message |-> ""]
      [] token.jwt = "expired" ->
            [ok |-> FALSE, decoded |-> NoPayload, message |-> "Token has expired"]
      [] OTHER -> [ok |-> FALSE, decoded |-> NoPayload, message |-> "Invalid token"]

\* socketAuthMiddleware(socket, next): user is the identity attached to the
\* socket (NoPayload when none), error the message given to next().
socketAuthMiddleware(handshake) ==
    LET token == IF JsTruthy(handshake.auth) THEN handshake.auth ELSE handshake.query
    IN  IF ~JsTruthy(token) \/ token.js # "string"
        THEN [ok |-> FALSE, user |-> NoPayload,
              error |-> <<"Authentication error", "No token provided">>]
        ELSE LET v == verifyToken(token)
             IN  IF v.ok
                 THEN [ok |-> TRUE,
                       user |-> [userId |-> v.decoded.userId,
                                 email |-> v.decoded.email,
                                 role |-> v.decoded.role],
                       error |-> <<>>]
                 ELSE [ok |-> FALSE, user |-> NoPayload,
                       error |-> <<"Authentication error", v.message>>]

\* The room every socket is in from the start: its own socket id.
SocketId(c) == "socket#" \o ToString(c)

\* Variant of RoomsOnConnection: an ADMIN also joins the room of every user.
RoomsOnConnection_AdminEverywhere(c, user) ==
    {SocketId(c)} \cup (IF user.userId # "" THEN {user.userId} ELSE {})
                 \cup (IF user.role = "ADMIN" THEN Users ELSE {})

\* io.on('connection'): rooms of a socket that passed the middleware.
RoomsOnConnection(c, user) ==
    {SocketId(c)} \cup (IF user.userId # "" THEN {user.userId} ELSE {})

\* Variant of eventsOnConnection: the unread notifications of the user are
\* sent to the new socket.
eventsOnConnection_ReplaysUnread(c, user) ==
    LET unread == {n \in DOMAIN notifications :
                     notifications[n].userId = user.userId /\ ~notifications[n].read}
    IN  IF unread = {} THEN <<>>
        ELSE LET n == CHOOSE m \in unread : TRUE
             IN  <<[name |-> "notification:new", room |-> SocketId(c),
                    payload |-> NotificationJSON(n, notifications[n]),
                    delivered |-> {c}]>>

\* What io.on('connection') emits to a new socket: it logs, joins the room
\* and registers the disconnect and error handlers.
eventsOnConnection(c, user) == <<>>

\* A client opens a connection with `handshake` on slot c.
Connect(c, handshake) ==
    /\ io
    /\ c \notin DOMAIN sockets
    /\ LET r == socketAuthMiddleware(handshake)
       IN  /\ sockets' = IF r.ok
                         THEN (c :> [user |-> r.user,
                                     rooms |-> RoomsOnConnection(c, r.user),
                                     writable |-> TRUE])
                              @@ sockets
                         ELSE sockets
           /\ last' = [op |-> "connect", conn |-> c, handshake |-> handshake,
                       result |-> IF r.ok THEN "ok" ELSE "rejected",
                       user |-> r.user, error |-> r.error,
                       notifs |-> <<>>,
                       events |-> IF r.ok THEN eventsOnConnection(c, r.user)
                                  ELSE <<>>]
    /\ UNCHANGED <<tasks, nextTaskId, notifications, nextNotifId, io>>

\* The transport of socket c fails; until the server sees the socket close,
\* what is written to it is lost.
TransportError(c) ==
    /\ c \in DOMAIN sockets
    /\ sockets[c].writable
    /\ sockets' = [sockets EXCEPT ![c].writable = FALSE]
    /\ last' = [op |-> "transportError", conn |-> c, result |-> "ok",
                notifs |-> <<>>, events |-> <<>>]
    /\ UNCHANGED <<tasks, nextTaskId, notifications, nextNotifId, io>>

\* The transport reports the disconnect of socket c: it leaves all its rooms.
Disconnect(c) ==
    /\ c \in DOMAIN sockets
    /\ sockets' = [d \in DOMAIN sockets \ {c} |-> sockets[d]]
    /\ last' = [op |-> "disconnect", conn |-> c, result |-> "ok",
                notifs |-> <<>>, events |-> <<>>]
    /\ UNCHANGED <<tasks, nextTaskId, notifications, nextNotifId, io>>

\* initializeSocketIO(httpServer): a new server, without sockets.  It is called
\* at start-up, and by the socket tests after closeSocketIO.
initializeSocketIO ==
    /\ ~io
    /\ io' = TRUE
    /\ sockets' = <<>>
    /\ last' = [op |-> "initializeSocketIO", result |-> "ok",
                notifs |-> <<>>, events |-> <<>>]
    /\ UNCHANGED <<tasks, nextTaskId, notifications, nextNotifId, now, arg,
                   requests>>

\* closeSocketIO(): io.close() disconnects every socket; io = null.
closeSocketIO ==
    /\ io
    /\ io' = FALSE
    /\ sockets' = <<>>
    /\ last' = [op |-> "closeSocketIO", result |-> "ok",
                notifs |-> <<>>, events |-> <<>>]
    /\ UNCHANGED <<tasks, nextTaskId, notifications, nextNotifId, now, arg,
                   requests>>

\* ------------------------------------------------------------ the inputs
Email(u) == u \o "@example.com"
TokenPayloads ==
    {[userId |-> u, email |-> Email(u), role |-> "USER"] : u \in {"u1", "u2"}}
    \cup {[userId |-> "u3", email |-> Email("u3"), role |-> "ADMIN"]}

AuthValues ==
    {TUndefined, TNull, TEmpty, TZero, TNumber, TMalformed,
     TExpired(CHOOSE p \in TokenPayloads : p.userId = "u1")}
    \cup {TValid(p) : p \in TokenPayloads}

Handshakes == [auth : AuthValues, query : AuthValues]

\* The handshakes of the clients of SpecDispatch: a token in the auth field.
ClientHandshakes ==
    {[auth |-> TValid(p), query |-> TUndefined] : p \in TokenPayloads}
    \cup {[auth |-> TMalformed, query |-> TUndefined]}

\* Patches and creation data: the assignment cases with valid data, and the
\* invalid titles, statuses and priorities with and without an assignee.
TaskData(titles, priorities, statuses, assignees) ==
    [title : titles, description : {NoDescription}, dueDate : {NoDueDate},
     priority : priorities, status : statuses, assignedToId : assignees]

CreateInputs ==
    TaskData({<<"a">>}, {Undefined}, {Undefined}, {Undefined} \cup Users)
    \cup TaskData({<<" ">>, NoTitle}, {Undefined}, {Undefined}, {Undefined, "u2"})
    \cup TaskData({<<"a">>}, {Undefined}, {"BOGUS"}, {Undefined, "u2"})

UpdateInputs ==
    TaskData({NoTitle}, {Undefined}, {Undefined, "COMPLETED"},
             {Undefined, Null} \cup Users)
    \cup TaskData({NoTitle}, {Undefined, "BOGUS", EmptyString},
                  {Undefined, "BOGUS", EmptyString}, {Undefined, "u2"})

\* ---------------------------------------------------------- specification
NoDocs == <<>>

NoArg == <<"\\none">>

Init ==
    /\ now = 0
    /\ tasks = NoDocs
    /\ nextTaskId = 1
    /\ notifications = NoDocs
    /\ nextNotifId = 1
    /\ io = FALSE
    /\ sockets = <<>>
    /\ last = [op |-> "start", result |-> "ok", notifs |-> <<>>, events |-> <<>>]
    /\ arg = NoArg
    /\ requests = <<>>

CreateTask ==
    /\ \E u \in Users, d \in CreateInputs : createTask(u, d)
    /\ UNCHANGED <<now, arg, requests>>

UpdateTask ==
    /\ \E t \in TaskIds, u \in Users, d \in UpdateInputs : updateTask(t, u, d)
    /\ UNCHANGED <<now, arg, requests>>

DeleteTask ==
    /\ \E t \in TaskIds, u \in Users : deleteTask(t, u)
    /\ UNCHANGED <<now, arg, requests>>

SocketConnect ==
    /\ \E c \in ConnIds, h \in ClientHandshakes : Connect(c, h)
    /\ UNCHANGED <<now, arg, requests>>

SocketHandshake ==
    /\ \E c \in ConnIds, h \in Handshakes : Connect(c, h)
    /\ UNCHANGED <<now, arg, requests>>

SocketDisconnect ==
    /\ \E c \in ConnIds : Disconnect(c)
    /\ UNCHANGED <<now, arg, requests>>

Next ==
    \/ CreateTask
    \/ UpdateTask
    \/ DeleteTask
    \/ initializeSocketIO
    \/ closeSocketIO

Spec == Init /\ [][Next]_vars

\* The dispatcher with its sockets: the calls that emit, from clients that
\* connect, disconnect and reconnect.
DispatchCreateInputs ==
    TaskData({<<"a">>}, {Undefined}, {Undefined}, {Undefined} \cup Users)

DispatchUpdateInputs ==
    TaskData({NoTitle}, {Undefined}, {Undefined}, {Undefined} \cup Users)

DispatchCreate ==
    /\ \E u \in Users, d \in DispatchCreateInputs : createTask(u, d)
    /\ UNCHANGED <<now, arg, requests>>

DispatchUpdate ==
    /\ \E t \in TaskIds, u \in Users, d \in DispatchUpdateInputs : updateTask(t, u, d)
    /\ UNCHANGED <<now, arg, requests>>

NextDispatch ==
    \/ DispatchCreate
    \/ DispatchUpdate
    \/ DeleteTask
    \/ SocketConnect
    \/ SocketDisconnect
    \/ initializeSocketIO
    \/ closeSocketIO

SpecDispatch == Init /\ [][NextDispatch]_vars

\* The handshake alone: every combination of auth field and query parameter.
NextHandshake ==
    \/ SocketHandshake
    \/ SocketDisconnect
    \/ initializeSocketIO
    \/ closeSocketIO

SpecHandshake == Init /\ [][NextHandshake]_vars

\* The notification service on its own: notifications created directly for
\* each user, then read and deleted by any user.
NotificationInputs ==
    {[userId |-> u, type |-> "TASK_UPDATED", title |-> "Task Updated",
      message |-> [by |-> "u3", about |-> <<"a">>],
      resourceId |-> 1, resourceType |-> "TASK"] : u \in {"u1", "u2"}}

CreateNotification ==
    /\ \E d \in NotificationInputs : createNotification(d)
    /\ UNCHANGED <<now, arg, requests>>

MarkAsRead ==
    /\ \E n \in NotifIds, u \in Users : markAsRead(n, u)
    /\ UNCHANGED <<now, arg, requests>>

MarkAllAsRead ==
    /\ \E u \in Users : markAllAsRead(u)
    /\ UNCHANGED <<now, arg, requests>>

DeleteNotification ==
    /\ \E n \in NotifIds, u \in Users : deleteNotification(n, u)
    /\ UNCHANGED <<now, arg, requests>>

NextNotify ==
    \/ CreateNotification
    \/ MarkAsRead
    \/ MarkAllAsRead
    \/ DeleteNotification

SpecNotify == Init /\ [][NextNotify]_vars

\* Listing on its own: a store that createTask has filled with up to MaxListed
\* tasks of two users, paged through by either of them.
ListedDocs ==
    {CreateDoc(u, d) :
        u \in {"u1", "u2"},
        d \in TaskData({<<"a">>}, {Undefined}, {Undefined, "COMPLETED"},
                       {Undefined})}

ListedStores == UNION {[1..n -> ListedDocs] : n \in 0..MaxListed}

InitList ==
    /\ now = 0
    /\ tasks \in ListedStores
    /\ nextTaskId = Len(tasks) + 1
    /\ notifications = NoDocs
    /\ nextNotifId = 1
    /\ io = FALSE
    /\ sockets = <<>>
    /\ last = [op |-> "start", result |-> "ok", notifs |-> <<>>, events |-> <<>>]
    /\ arg = NoArg
    /\ requests = <<>>

PageFilters ==
    [status : {Undefined, "COMPLETED"}, priority : {Undefined}, search : {<<>>}]
PageInputs == [page : 1..2, limit : {3}]

\* getTasks(userId, filters, pagination) called: `page` is what it returned.
ListTasks ==
    \E u \in {"u1", "u2"}, f \in PageFilters, p \in PageInputs :
        /\ last' = [op |-> "getTasks", userId |-> u, result |-> "ok",
                    page |-> getTasks(u, f, p), notifs |-> <<>>, events |-> <<>>]
        /\ UNCHANGED <<tasks, nextTaskId, notifications, nextNotifId, io, sockets,
                       now, arg, requests>>

NextList == ListTasks

SpecList == InitList /\ [][NextList]_vars

\* The assigned list on its own: a store that createTask has filled with up
\* to MaxAssigned tasks of every priority, with and without dueDate, assigned
\* to one of two users; either of them asks for the list.
AssignedDocs ==
    {CreateDoc("u3", [d EXCEPT !.dueDate = due]) :
        d \in TaskData({<<"a">>}, validPriorities, {Undefined}, {"u1", "u2"}),
        due \in {NoDueDate, 1, 2}}

AssignedStores == UNION {[1..n -> AssignedDocs] : n \in 0..MaxAssigned}

InitAssigned ==
    /\ now = 0
    /\ tasks \in AssignedStores
    /\ nextTaskId = Len(tasks) + 1
    /\ notifications = NoDocs
    /\ nextNotifId = 1
    /\ io = FALSE
    /\ sockets = <<>>
    /\ last = [op |-> "start", result |-> "ok", notifs |-> <<>>, events |-> <<>>]
    /\ arg = NoArg
    /\ requests = <<>>

\* getAssignedTasks(userId) called: `list` is what it returned.
ListAssigned ==
    \E u \in {"u1", "u2"} :
        /\ last' = [op |-> "getAssignedTasks", userId |-> u, result |-> "ok",
                    list |-> getAssignedTasks(u), notifs |-> <<>>, events |-> <<>>]
        /\ UNCHANGED <<tasks, nextTaskId, notifications, nextNotifId, io, sockets,
                       now, arg, requests>>

NextAssigned == ListAssigned

SpecAssigned == InitAssigned /\ [][NextAssigned]_vars

\* Updates over time: one task, patched field by field by its creator while
\* the clock advances between some of the calls and not between others.
EmptyPatch ==
    [title |-> NoTitle, description |-> NoDescription, dueDate |-> NoDueDate,
     priority |-> Undefined, status |-> Undefined, assignedToId |-> Undefined]

PatchInputs ==
    {EmptyPatch}
    \cup {[EmptyPatch EXCEPT !.title = x] : x \in {<<"a">>, <<"b">>, <<" ", "b", " ">>}}
    \cup {[EmptyPatch EXCEPT !.description = <<"d">>],
          [EmptyPatch EXCEPT !.dueDate = 1],
          [EmptyPatch EXCEPT !.priority = "HIGH"],
          [EmptyPatch EXCEPT !.status = "COMPLETED"],
          [EmptyPatch EXCEPT !.assignedToId = "u1"],
          [EmptyPatch EXCEPT !.assignedToId = Null],
          [EmptyPatch EXCEPT !.title = <<"b">>, !.status = "TODO"]}

TimedCreateInputs == TaskData({<<"a">>}, {Undefined}, {Undefined}, {Undefined})

TimedCreate ==
    /\ \E d \in TimedCreateInputs : createTask("u1", d) /\ arg' = d
    /\ UNCHANGED <<now, requests>>

TimedUpdate ==
    /\ \E t \in TaskIds, d \in PatchInputs : updateTask(t, "u1", d) /\ arg' = d
    /\ UNCHANGED <<now, requests>>

\* Time passes between two calls.
Tick ==
    /\ now < MaxTime
    /\ now' = now + 1
    /\ UNCHANGED <<tasks, nextTaskId, notifications, nextNotifId, io, sockets,
                   last, arg, requests>>

NextTime ==
    \/ TimedCreate
    \/ TimedUpdate
    \/ Tick

SpecTime == Init /\ [][NextTime]_vars

\* The dispatcher failing: the operations of one user while the server is
\* closed or started, sockets connect, lose their transport and disconnect.
TransportCreateInputs ==
    TaskData({<<"a">>}, {Undefined}, {Undefined}, {Undefined, "u2"})

TransportUpdateInputs ==
    TaskData({NoTitle}, {Undefined}, {"COMPLETED"}, {Undefined})

TransportCreate ==
    /\ \E d \in TransportCreateInputs : createTask("u1", d)
    /\ UNCHANGED <<now, arg, requests>>

TransportUpdate ==
    /\ \E t \in TaskIds, d \in TransportUpdateInputs : updateTask(t, "u1", d)
    /\ UNCHANGED <<now, arg, requests>>

SocketTransportError ==
    /\ \E c \in ConnIds : TransportError(c)
    /\ UNCHANGED <<now, arg, requests>>

NextTransport ==
    \/ TransportCreate
    \/ TransportUpdate
    \/ DeleteTask
    \/ CreateNotification
    \/ SocketConnect
    \/ SocketTransportError
    \/ SocketDisconnect
    \/ initializeSocketIO
    \/ closeSocketIO

SpecTransport == Init /\ [][NextTransport]_vars

\* Updates in flight together: the creator's updateTask calls on one task
\* interleave at `await task.save()` while the clock advances.
BeginUpdate ==
    /\ \E t \in TaskIds, d \in PatchInputs : beginUpdate(t, "u1", d)
    /\ UNCHANGED <<now, arg>>

FinishUpdate ==
    /\ \E r \in DOMAIN requests : finishUpdate(r)
    /\ UNCHANGED <<now, arg>>

NextRace ==
    \/ TimedCreate
    \/ BeginUpdate
    \/ FinishUpdate
    \/ Tick

SpecRace == Init /\ [][NextRace]_vars

\* Calls in flight together on a running server: the creator u1 and the
\* assignee u2 update one task, each call interleaving with the others at its
\* awaits, while u1 may reassign or delete the task.
InitStale ==
    /\ now = 0
    /\ tasks = NoDocs
    /\ nextTaskId = 1
    /\ notifications = NoDocs
    /\ nextNotifId = 1
    /\ io = TRUE
    /\ sockets = <<>>
    /\ last = [op |-> "initializeSocketIO", result |-> "ok",
               notifs |-> <<>>, events |-> <<>>]
    /\ arg = NoArg
    /\ requests = <<>>

StaleCreateInputs == TaskData({<<"a">>}, {Undefined}, {Undefined}, {"u2"})

StalePatches ==
    {[EmptyPatch EXCEPT !.status = "COMPLETED"],
     [EmptyPatch EXCEPT !.assignedToId = "u3"],
     [EmptyPatch EXCEPT !.assignedToId = Null]}

StaleCreate ==
    /\ \E d \in StaleCreateInputs : createTask("u1", d)
    /\ UNCHANGED <<now, arg, requests>>

StaleBegin ==
    /\ \E t \in TaskIds, u \in {"u1", "u2"}, d \in StalePatches : beginUpdate(t, u, d)
    /\ UNCHANGED <<now, arg>>

StaleSave ==
    /\ \E r \in DOMAIN requests : saveUpdate(r)
    /\ UNCHANGED <<now, arg>>

StaleComplete ==
    /\ \E r \in DOMAIN requests : completeUpdate(r)
    /\ UNCHANGED <<now, arg>>

StaleDelete ==
    /\ \E t \in TaskIds : deleteTask(t, "u1")
    /\ UNCHANGED <<now, arg, requests>>

NextStale ==
    \/ StaleCreate
    \/ StaleBegin
    \/ StaleSave
    \/ StaleComplete
    \/ StaleDelete

SpecStale == InitStale /\ [][NextStale]_vars

\* The store failing: createTask and updateTask on a store that may reject
\* the write of a notification, with and without a server instance.
FailureCreateInputs ==
    TaskData({<<"a">>, NoTitle}, {Undefined}, {Undefined}, {Undefined, "u2"})

FailureUpdateInputs ==
    TaskData({NoTitle}, {Undefined}, {Undefined, "COMPLETED", "BOGUS"},
             {Undefined, "u3"})

FailureCreate ==
    /\ \E d \in FailureCreateInputs : createTask("u1", d)
    /\ UNCHANGED <<now, arg, requests>>

FailureCreateRejected ==
    /\ \E d \in FailureCreateInputs : createTaskRejected("u1", d)
    /\ UNCHANGED <<now, arg, requests>>

FailureUpdate ==
    /\ \E t \in TaskIds, u \in Users, d \in FailureUpdateInputs : updateTask(t, u, d)
    /\ UNCHANGED <<now, arg, requests>>

FailureUpdateRejected ==
    /\ \E t \in TaskIds, u \in Users, d \in FailureUpdateInputs, k \in 1..2 :
          updateTaskRejected(t, u, d, k)
    /\ UNCHANGED <<now, arg, requests>>

NextFailure ==
    \/ FailureCreate
    \/ FailureCreateRejected
    \/ FailureUpdate
    \/ FailureUpdateRejected
    \/ initializeSocketIO
    \/ closeSocketIO

SpecFailure == Init /\ [][NextFailure]_vars

\* The order of the checks: any user reads, patches and deletes by id, with
\* ids that resolve to a task and ids that do not, and with patches that are
\* valid and patches that are not.
OrderIds == TaskIds \cup {MaxTasks + 1}

OrderCreateInputs ==
    TaskData({<<"a">>}, {Undefined}, {Undefined}, {Undefined, "u2"})

OrderCreate ==
    /\ \E u \in {"u1", "u2"}, d \in OrderCreateInputs : createTask(u, d) /\ arg' = d
    /\ UNCHANGED <<now, requests>>

OrderGet ==
    /\ \E t \in OrderIds, u \in Users :
          last' = Outcome("getTaskById", u, t, getTaskById(t, u))
    /\ arg' = NoArg
    /\ UNCHANGED <<tasks, nextTaskId, notifications, nextNotifId, io, sockets,
                   now, requests>>

OrderUpdate ==
    /\ \E t \in OrderIds, u \in Users, d \in UpdateInputs :
          updateTask(t, u, d) /\ arg' = d
    /\ UNCHANGED <<now, requests>>

OrderDelete ==
    /\ \E t \in OrderIds, u \in Users : deleteTask(t, u)
    /\ arg' = NoArg
    /\ UNCHANGED <<now, requests>>

NextOrder ==
    \/ OrderCreate
    \/ OrderGet
    \/ OrderUpdate
    \/ OrderDelete

SpecOrder == Init /\ [][NextOrder]_vars

\* ================================================================ claims
TaskOps == {"createTask", "updateTask", "deleteTask"}

\* The last call was this task operation and returned normally.
Returned(op) == last.op = op /\ last.result = "ok"

\* Notifications the last call created, as a set of ids.
Created == {last.notifs[i] : i \in 1..Len(last.notifs)}

\* C1: creatorId never changes.  A task that exists before and after a step
\* has the same creatorId, whatever the step (create, update by creator or
\* assignee, reassignment, failed call); a task that appears in a step has the
\* creating identity as creatorId.
C1_CreatorImmutable ==
    [][/\ \A t \in DOMAIN tasks \cap DOMAIN tasks' :
             tasks'[t].creatorId = tasks[t].creatorId
       /\ \A t \in DOMAIN tasks' \ DOMAIN tasks :
             /\ last'.op = "createTask"
             /\ tasks'[t].creatorId = last'.userId]_vars

\* C1 witness: the assignee, who is not the creator, has just reassigned the
\* task to a third identity.
C1_Witness ==
    /\ Returned("updateTask")
    /\ last.taskId \in DOMAIN tasks
    /\ last.userId # tasks[last.taskId].creatorId
    /\ tasks[last.taskId].assignedToId \notin {NoUser, last.userId,
                                               tasks[last.taskId].creatorId}

\* The filters and pages the list claims are checked on.
ListFilters ==
    [status : {Undefined, "TODO"}, priority : {Undefined, "MEDIUM"},
     search : {<<>>, <<"A">>}]
ListPages == [page : 1..2, limit : {1, 10}]

Items(r) == {r.items[i] : i \in 1..Len(r.items)}

\* C2: an identity that is neither creator nor assignee of a task gets
\* Authorization from getTaskById and never finds the task in a list; a list
\* holds only tasks of which the caller is creator or assignee.
C2_OutsiderSeesNothing ==
    \A u \in Users :
        /\ \A t \in DOMAIN tasks :
              u \notin {tasks[t].creatorId, tasks[t].assignedToId}
                 => getTaskById(t, u) = "Authorization"
        /\ \A f \in ListFilters, p \in ListPages :
              \A t \in Items(getTasks(u, f, p)) :
                 /\ t \in DOMAIN tasks
                 /\ u \in {tasks[t].creatorId, tasks[t].assignedToId}

\* C2 witness: a task with creator and a different assignee, so that the third
\* identity is an outsider, while the assignee does find it in its list.
C2_Witness ==
    \E t \in DOMAIN tasks :
        /\ tasks[t].assignedToId \notin {NoUser, tasks[t].creatorId}
        /\ \E u \in Users : u \notin {tasks[t].creatorId, tasks[t].assignedToId}
        /\ t \in Items(getTasks(tasks[t].assignedToId,
                                [status |-> Undefined, priority |-> Undefined,
                                 search |-> <<>>],
                                [page |-> 1, limit |-> 10]))

\* C3: a delete by anyone but the creator (the assignee included) and an update
\* by anyone who is neither creator nor assignee are rejected with
\* Authorization, and the step changes neither the task (the creator still
\* gets it) nor the notifications, and emits nothing.
C3_AuthorizationLeavesUntouched ==
    [][/\ (/\ last'.op = "deleteTask"
           /\ last'.taskId \in DOMAIN tasks
           /\ last'.userId # tasks[last'.taskId].creatorId)
          => last'.result = "Authorization"
       /\ (/\ last'.op = "updateTask"
           /\ last'.taskId \in DOMAIN tasks
           /\ last'.userId \notin {tasks[last'.taskId].creatorId,
                                   tasks[last'.taskId].assignedToId})
          => last'.result = "Authorization"
       /\ (last'.op \in TaskOps /\ last'.result = "Authorization")
          => /\ tasks' = tasks
             /\ notifications' = notifications
             /\ last'.notifs = <<>>
             /\ last'.events = <<>>
             /\ \A t \in TaskIds, c \in Users :
                   (t = last'.taskId /\ c = tasks[t].creatorId)
                      => getTaskById(t, c)' = "ok"]_vars

\* C3 witness: the current assignee tried to delete, with a dispatcher active.
C3_Witness ==
    /\ last.op = "deleteTask"
    /\ last.result = "Authorization"
    /\ last.taskId \in DOMAIN tasks
    /\ last.userId = tasks[last.taskId].assignedToId
    /\ io

\* C4: right after a successful create whose assignee is set and is not the
\* actor, exactly one notification refers to the new task: a TASK_ASSIGNED,
\* unread, for the assignee, and it is the only one the call created; without
\* assignee, or with the actor as assignee, the call created none.
C4_CreateNotifiesAssignee ==
    Returned("createTask") =>
        LET t == last.taskId
            about == {n \in DOMAIN notifications : notifications[n].resourceId = t}
        IN  /\ Created = about
            /\ IF tasks[t].assignedToId \notin {NoUser, last.userId}
               THEN /\ Cardinality(about) = 1
                    /\ \A n \in about :
                          /\ notifications[n].userId = tasks[t].assignedToId
                          /\ notifications[n].type = "TASK_ASSIGNED"
                          /\ notifications[n].read = FALSE
                          /\ notifications[n].resourceType = "TASK"
               ELSE about = {}

\* C4 witness: a task was just created for another identity.
C4_Witness ==
    /\ Returned("createTask")
    /\ tasks[last.taskId].assignedToId \notin {NoUser, last.userId}

\* Notifications of type `type` the last call created for recipient u.
CreatedFor(u, type) ==
    {n \in Created : notifications[n].userId = u /\ notifications[n].type = type}

\* C5: an update that reassigns the task gives the new assignee the
\* TASK_ASSIGNED notification only: no recipient gets more than one
\* notification from one update.
C5_OneNotificationPerRecipient ==
    Returned("updateTask") =>
        \A u \in Users :
            Cardinality({n \in Created : notifications[n].userId = u}) <= 1

\* C6: a successful update creates exactly one TASK_UPDATED notification for
\* each of the task's creator and assignee that is not the actor, and no task
\* operation creates a notification for its own actor.
C6_UpdateNotifiesStakeholders ==
    /\ Returned("updateTask") =>
          \A u \in Users :
              (/\ u \in {tasks[last.taskId].creatorId,
                         tasks[last.taskId].assignedToId}
               /\ u # last.userId)
                 => Cardinality(CreatedFor(u, "TASK_UPDATED")) = 1
    /\ last.op \in TaskOps =>
          \A n \in Created : notifications[n].userId # last.userId

\* C6 witness: the assignee reassigned the task to the creator, who is then
\* both stakeholders at once, and got a single TASK_UPDATED.
C6_Witness ==
    /\ Returned("updateTask")
    /\ tasks[last.taskId].creatorId = tasks[last.taskId].assignedToId
    /\ tasks[last.taskId].creatorId # last.userId
    /\ Cardinality(CreatedFor(tasks[last.taskId].creatorId, "TASK_UPDATED")) = 1

\* A patch that carries a status or a priority outside the enumerated values.
CarriesInvalidEnum(data) ==
    \/ data.status # Undefined /\ data.status \notin validStatuses
    \/ data.priority # Undefined /\ data.priority \notin validPriorities

\* C7: an update by the creator or the assignee whose patch carries a status or
\* a priority that is not an enumerated value fails with Validation, and the
\* failed call leaves task and notifications as they were and emits nothing.
C7_InvalidEnumIsValidation ==
    [][/\ \A t \in DOMAIN tasks, u \in Users, d \in UpdateInputs :
             (/\ u \in {tasks[t].creatorId, tasks[t].assignedToId}
              /\ CarriesInvalidEnum(d))
                => updateTaskThrows(t, u, d) = "Validation"
       /\ (last'.op = "updateTask" /\ last'.result = "Validation")
             => /\ tasks' = tasks
                /\ notifications' = notifications
                /\ last'.notifs = <<>>
                /\ last'.events = <<>>]_vars

\* The identities of the sockets that are connected.
Identity(c) == sockets[c].user.userId

Events(name) == {i \in 1..Len(last.events) : last.events[i].name = name}

\* C8: a notification:new event for recipient R reaches exactly the connected
\* sockets whose identity is R, and no socket of another identity.
C8_NotificationToRecipientOnly ==
    \A i \in Events("notification:new") :
        last.events[i].delivered =
            {c \in DOMAIN sockets : Identity(c) = last.events[i].payload.userId}

\* C8 witness: the recipient has a socket that got the event while a socket of
\* another identity is connected.
C8_Witness ==
    \E i \in Events("notification:new") :
        /\ last.events[i].delivered # {}
        /\ \E c \in DOMAIN sockets : Identity(c) # last.events[i].payload.userId

\* The credential of a handshake: the auth field when one is given (not
\* undefined, null, 0 or empty), else the query parameter.
Given(v) == ~(v.js \in {"undefined", "null", "zero"} \/ v = TEmpty)
Credential(h) == IF Given(h.auth) THEN h.auth ELSE h.query
Verifies(v) == v.js = "string" /\ v.jwt = "valid"

\* C9: a connection is authenticated iff its credential is a string that
\* verifies, and then carries exactly the token's (userId, email, role) and is
\* in that identity's room; any other handshake is rejected with an
\* 'Authentication error', has no identity and is in no room.
C9_AuthenticatedIffVerified ==
    /\ last.op = "connect" =>
          LET cred == Credential(last.handshake)
          IN  IF Verifies(cred)
              THEN /\ last.result = "ok"
                   /\ last.conn \in DOMAIN sockets
                   /\ sockets[last.conn].user = cred.payload
                   /\ cred.payload.userId \in sockets[last.conn].rooms
              ELSE /\ last.result = "rejected"
                   /\ last.error # <<>>
                   /\ last.error[1] = "Authentication error"
                   /\ last.user = NoPayload
                   /\ last.conn \notin DOMAIN sockets
                   /\ \A u \in Users : last.conn \notin SocketsIn(u)
    /\ \A c \in DOMAIN sockets : sockets[c].user \in TokenPayloads

\* C9 witness: authenticated by the query parameter, the auth field absent.
C9_Witness ==
    /\ last.op = "connect"
    /\ last.result = "ok"
    /\ last.handshake.auth = TUndefined
    /\ SocketsIn(last.user.userId) # {}

\* The one event name of each task operation.
EventOf(op) ==
    CASE op = "createTask" -> "task:created"
      [] op = "updateTask" -> "task:updated"
      [] op = "deleteTask" -> "task:deleted"

TaskEvents == {"task:created", "task:updated", "task:deleted"}

AllTaskEvents == {i \in 1..Len(last.events) : last.events[i].name \in TaskEvents}

\* C10 as claimed: every successful create, update and delete emits its one
\* task event, delivered to every connected socket.
C10_AlwaysEmits ==
    (last.op \in TaskOps /\ last.result = "ok") =>
        /\ Cardinality(AllTaskEvents) = 1
        /\ \A i \in AllTaskEvents :
              /\ last.events[i].name = EventOf(last.op)
              /\ last.events[i].delivered = DOMAIN sockets

\* C10 amended: with a dispatcher instance active, every successful create,
\* update and delete emits its one task event, delivered to every connected
\* socket whether or not its identity may access the task; with none active
\* it emits nothing.
C10_EmitsWhenActive ==
    (last.op \in TaskOps /\ last.result = "ok") =>
        IF io
        THEN /\ Cardinality(AllTaskEvents) = 1
             /\ \A i \in AllTaskEvents :
                   /\ last.events[i].name = EventOf(last.op)
                   /\ last.events[i].delivered = DOMAIN sockets
        ELSE last.events = <<>>

\* C10 witness: task:updated reached a socket whose identity is neither the
\* creator nor the assignee of the task.
C10_Witness ==
    /\ Returned("updateTask")
    /\ \E i \in Events("task:updated") :
          \E c \in last.events[i].delivered :
              Identity(c) \notin {tasks[last.taskId].creatorId,
                                  tasks[last.taskId].assignedToId}

\* C11: markAllAsRead(u) marks every unread notification of u as read, returns
\* how many it changed, and leaves the notifications of other users as they
\* were; called again right after, it returns 0 and all of u's notifications
\* are still read.
C11_MarkAllReadIdempotent ==
    [][last'.op = "markAllAsRead" =>
          LET u == last'.userId IN
          /\ DOMAIN notifications' = DOMAIN notifications
          /\ \A n \in DOMAIN notifications :
                IF notifications[n].userId = u
                THEN notifications'[n] = [notifications[n] EXCEPT !.read = TRUE]
                ELSE notifications'[n] = notifications[n]
          /\ last'.count =
                Cardinality({n \in DOMAIN notifications :
                               notifications[n].userId = u /\ ~notifications[n].read})
          /\ last'.again => last'.count = 0
       ]_vars

\* C11 witness: the second of two calls in a row, for a user that has
\* notifications, while another user has an unread one.
C11_Witness ==
    /\ last.op = "markAllAsRead"
    /\ last.again
    /\ last.count = 0
    /\ \E n \in DOMAIN notifications : notifications[n].userId = last.userId
    /\ \E n \in DOMAIN notifications :
          notifications[n].userId # last.userId /\ ~notifications[n].read

\* C12: markAsRead and deleteNotification on an existing notification succeed
\* iff the caller is its recipient; for any other caller they fail with
\* Authorization and the notification stays, its read flag unchanged.
C12_OnlyRecipientReadsAndDeletes ==
    [][(/\ last'.op \in {"markAsRead", "deleteNotification"}
        /\ last'.notifId \in DOMAIN notifications)
          => LET n == last'.notifId IN
             IF notifications[n].userId = last'.userId
             THEN /\ last'.result = "ok"
                  /\ last'.op = "markAsRead" =>
                        n \in DOMAIN notifications' /\ notifications'[n].read
                  /\ last'.op = "deleteNotification" =>
                        n \notin DOMAIN notifications'
             ELSE /\ last'.result = "Authorization"
                  /\ notifications' = notifications
       ]_vars

\* C12 witness: a user that is not the recipient was refused the deletion of
\* an unread notification, which is still there.
C12_Witness ==
    /\ last.op = "deleteNotification"
    /\ last.result = "Authorization"
    /\ last.notifId \in DOMAIN notifications
    /\ notifications[last.notifId].userId # last.userId
    /\ ~notifications[last.notifId].read

\* The actor's filtered, access-scoped set.
Scoped(u, f) ==
    {t \in DOMAIN tasks :
        /\ u \in {tasks[t].creatorId, tasks[t].assignedToId}
        /\ f.status # Undefined => tasks[t].status = f.status
        /\ f.priority # Undefined => tasks[t].priority = f.priority}

\* ceil(n / d)
CeilDiv(n, d) == CHOOSE k \in 0..n : k * d >= n /\ (k = 0 \/ (k - 1) * d < n)

Max(a, b) == IF a >= b THEN a ELSE b

C14_UpdatedAtAdvances ==
    [][(last'.op = "updateTask" /\ last'.result = "ok")
          => tasks'[last'.taskId].updatedAt > tasks[last'.taskId].updatedAt]_vars

\* C15: a successful update gives every field present in the patch the
\* patch's value (the title trimmed, an assignee of null none) and leaves
\* every absent field, creatorId and createdAt as they were; the creator then
\* gets the task from getTaskById.
C15_PartialUpdate ==
    [][(last'.op = "updateTask" /\ last'.result = "ok" /\ arg' \in PatchInputs)
          => LET d == arg'
                 old == tasks[last'.taskId]
                 new == tasks'[last'.taskId]
             IN  /\ new.title = IF d.title = NoTitle THEN old.title ELSE Trim(d.title)
                 /\ new.description =
                       IF d.description = NoDescription THEN old.description
                       ELSE d.description
                 /\ new.dueDate = IF d.dueDate = NoDueDate THEN old.dueDate ELSE d.dueDate
                 /\ new.priority = IF d.priority = Undefined THEN old.priority ELSE d.priority
                 /\ new.status = IF d.status = Undefined THEN old.status ELSE d.status
                 /\ new.assignedToId =
                       CASE d.assignedToId = Undefined -> old.assignedToId
                         [] d.assignedToId = Null -> NoUser
                         [] OTHER -> d.assignedToId
                 /\ new.creatorId = old.creatorId
                 /\ new.createdAt = old.createdAt
                 /\ \A t \in TaskIds, c \in Users :
                       (t = last'.taskId /\ c = old.creatorId)
                          => getTaskById(t, c)' = "ok"
       ]_vars

\* C15 witness: a patch of the title alone has set the title of a task whose
\* status, description and assignee earlier updates had set.
C15_Witness ==
    /\ Returned("updateTask")
    /\ arg = [EmptyPatch EXCEPT !.title = <<"b">>]
    /\ tasks[last.taskId].title = <<"b">>
    /\ tasks[last.taskId].status = "COMPLETED"
    /\ tasks[last.taskId].description = <<"d">>
    /\ tasks[last.taskId].assignedToId = "u1"

\* Ids that were given to a task that is no longer stored.
Deleted == {t \in 1..(nextTaskId - 1) : t \notin DOMAIN tasks}

\* What a successful delete leaves, apart from its event: the task is gone,
\* the notifications are as they were, and from then on getTaskById,
\* updateTask and deleteTask on a deleted id give NotFound.
DeleteEffect ==
    /\ (last'.op = "deleteTask" /\ last'.result = "ok")
          => /\ last'.taskId \in DOMAIN tasks
             /\ last'.userId = tasks[last'.taskId].creatorId
             /\ last'.taskId \notin DOMAIN tasks'
             /\ notifications' = notifications
             /\ last'.notifs = <<>>
             /\ \A i \in 1..Len(last'.events) :
                   /\ last'.events[i].name = "task:deleted"
                   /\ last'.events[i].payload = [taskId |-> last'.taskId]
    /\ \A t \in TaskIds, u \in Users :
          (t \in Deleted')
             => /\ getTaskById(t, u)' = "NotFound"
                /\ deleteTaskThrows(t, u)' = "NotFound"
                /\ \A d \in DispatchUpdateInputs :
                      updateTaskThrows(t, u, d)' = "NotFound"

\* C16 as claimed: a successful delete by the creator removes the task for
\* good, emits one task:deleted event that carries only the task id, and
\* creates no notification.
C16_DeleteEmitsOne ==
    [][/\ DeleteEffect
       /\ (last'.op = "deleteTask" /\ last'.result = "ok")
             => Len(last'.events) = 1]_vars

\* C16 amended: ... emits one such event while a dispatcher instance is
\* active and none otherwise.
C16_DeleteEmitsOneWhenActive ==
    [][/\ DeleteEffect
       /\ (last'.op = "deleteTask" /\ last'.result = "ok")
             => Len(last'.events) = (IF io THEN 1 ELSE 0)]_vars

\* C16 witness: the task of a creator was deleted while its assignee was
\* connected: the assignee's socket got task:deleted, and the only
\* notifications are the ones from before.
C16_Witness ==
    /\ Returned("deleteTask")
    /\ last.taskId \in Deleted
    /\ Len(last.events) = 1
    /\ \E c \in last.events[1].delivered : Identity(c) # last.userId
    /\ \E n \in DOMAIN notifications :
          notifications[n].userId # last.userId /\ notifications[n].resourceId = last.taskId

\* The operations that hand events to the dispatcher.
EmittingOps == TaskOps \cup {"createNotification"}

\* The sockets an event was addressed to.
Targets(e) == IF e.room = "*" THEN DOMAIN sockets ELSE SocketsIn(e.room)

C18_NoQueueNoReplay ==
    /\ (last.op \in EmittingOps /\ ~io) => last.events = <<>>
    /\ \A i \in 1..Len(last.events) :
          /\ last.op \in EmittingOps
          /\ last.events[i].delivered \subseteq Targets(last.events[i])
    /\ last.op \in {"connect", "initializeSocketIO"} => last.events = <<>>
    /\ last.op \in EmittingOps =>
          \A i \in 1..Len(last.notifs) : last.notifs[i] \in DOMAIN notifications

\* C18 witness: a user connects as the only socket while a notification for
\* that user is stored unread: the socket is sent nothing.
C18_Witness ==
    /\ last.op = "connect"
    /\ last.result = "ok"
    /\ DOMAIN sockets = {last.conn}
    /\ last.events = <<>>
    /\ \E n \in DOMAIN notifications :
          notifications[n].userId = last.user.userId /\ ~notifications[n].read

\* The two updates that were in flight together: `first` wrote before
\* `second`, both had read the task before either wrote, and every other
\* write of the task landed before they read.
Raced(first, second) ==
    /\ first \in DOMAIN requests
    /\ second \in DOMAIN requests
    /\ requests[first].taskId = requests[second].taskId
    /\ 0 < requests[first].wrote
    /\ requests[first].wrote < requests[second].wrote
    /\ requests[first].readAfter < requests[first].wrote
    /\ requests[second].readAfter < requests[first].wrote
    /\ \A q \in DOMAIN requests \ {first, second} :
          (requests[q].taskId = requests[first].taskId /\ requests[q].wrote # 0)
             => /\ requests[q].wrote <= requests[first].readAfter
                /\ requests[q].wrote <= requests[second].readAfter

\* The update of request r changed field f of the document it read.
Changed(r, f) ==
    IF f = "updatedAt" THEN requests[r].doc # requests[r].read
    ELSE requests[r].doc[f] # requests[r].read[f]

\* C19 as stated: after two updates that were in flight together, the stored
\* task is the whole document of the later write.
C19_LaterWriteWinsInFull ==
    \A a, b \in 1..MaxRequests :
        Raced(a, b) => tasks[requests[b].taskId] = requests[b].doc

\* C19: after two updates that were in flight together, each field of the
\* stored task has the later write's value if the later update changed that
\* field and the earlier write's value otherwise: a field changed only by the
\* earlier update keeps the earlier update's value.
C19_LaterWriteWinsPerField ==
    \A a, b \in 1..MaxRequests :
        Raced(a, b) =>
            \A f \in DOMAIN tasks[requests[b].taskId] :
                tasks[requests[b].taskId][f] =
                    IF Changed(b, f) THEN requests[b].doc[f]
                    ELSE requests[a].doc[f]

\* C19 witness: the earlier update set the status, the later one the title,
\* both from the same document: the stored task has both.
C19_Witness ==
    /\ Raced(1, 2)
    /\ requests[1].data = [EmptyPatch EXCEPT !.status = "COMPLETED"]
    /\ requests[2].data = [EmptyPatch EXCEPT !.title = <<"b">>]
    /\ tasks[1].status = "COMPLETED"
    /\ tasks[1].title = <<"b">>
    /\ requests[2].doc.status = "TODO"

\* The relationship an operation requires of its caller: creator to delete,
\* creator or assignee to read and to update.
Related(op, doc, userId) ==
    \/ doc.creatorId = userId
    \/ op # "deleteTask" /\ doc.assignedToId = userId

\* C20: getTaskById, updateTask and deleteTask called with an id that
\* resolves to no task fail with NotFound, and called on an existing task by
\* a user without the required relationship fail with Authorization, whatever
\* the patch: Validation is only ever the answer to a related caller of an
\* existing task.
C20_ChecksInOrder ==
    [][last'.op \in {"getTaskById", "updateTask", "deleteTask"}
          => LET t == last'.taskId
                 u == last'.userId
             IN  /\ t \notin DOMAIN tasks => last'.result = "NotFound"
                 /\ (t \in DOMAIN tasks /\ ~Related(last'.op, tasks[t], u))
                       => last'.result = "Authorization"
                 /\ last'.result = "Validation"
                       => /\ t \in DOMAIN tasks
                          /\ Related(last'.op, tasks[t], u)
                          /\ PatchRejected(arg')]_vars

\* C20 witness: a user who is neither creator nor assignee of an existing
\* task sent a patch with an invalid status and got Authorization.
C20_Witness ==
    /\ last.op = "updateTask"
    /\ last.result = "Authorization"
    /\ last.taskId \in DOMAIN tasks
    /\ ~Related("updateTask", tasks[last.taskId], last.userId)
    /\ arg \in UpdateInputs
    /\ arg.status = "BOGUS"


\* The notifications of the given type that the last call created.
NotifsOfType(type) ==
    {i \in 1..Len(last.notifs) : notifications[last.notifs[i]].type = type}

\* C21: an update that succeeds creates one TASK_ASSIGNED notification, for
\* the new assignee, when the patch names a user as assignee who is not the
\* task's assignee so far and not the caller; otherwise (no assignee in the
\* patch, the same assignee, the assignee cleared, the caller) it creates none.
C21_AssignedNotification ==
    [][(last'.op = "updateTask" /\ last'.result = "ok" /\ arg' \in UpdateInputs)
          => LET d == arg'
                 old == tasks[last'.taskId]
                 made == NotifsOfType("TASK_ASSIGNED")'
             IN  IF /\ d.assignedToId \in Users
                    /\ d.assignedToId # old.assignedToId
                    /\ d.assignedToId # last'.userId
                 THEN /\ Cardinality(made) = 1
                      /\ \A i \in made :
                            /\ notifications'[last'.notifs[i]].userId = d.assignedToId
                            /\ notifications'[last'.notifs[i]].resourceId = last'.taskId
                 ELSE made = {}]_vars

\* C21 witness: the creator u1 hands a task of u2's to u3: one TASK_ASSIGNED
\* notification for u3.
C21_Witness ==
    /\ Returned("updateTask")
    /\ last.userId = "u1"
    /\ arg \in UpdateInputs
    /\ arg.assignedToId = "u3"
    /\ \E i \in NotifsOfType("TASK_ASSIGNED") :
          notifications[last.notifs[i]].userId = "u3"


\* The rank of a priority: URGENT above HIGH above MEDIUM above LOW.
Urgency(priority) ==
    CASE priority = "URGENT" -> 4
      [] priority = "HIGH" -> 3
      [] priority = "MEDIUM" -> 2
      [] priority = "LOW" -> 1

\* C22: getAssignedTasks returns exactly the tasks assigned to the caller,
\* the more urgent priority first and, within one priority, the earlier
\* dueDate first with the tasks without dueDate last.
C22_AssignedOrder ==
    last.op = "getAssignedTasks"
       => LET l == last.list
              IN  /\ {l[i] : i \in 1..Len(l)}
                       = {t \in DOMAIN tasks : tasks[t].assignedToId = last.userId}
                  /\ \A i, j \in 1..Len(l) :
                        i < j =>
                           LET x == tasks[l[i]]
                               y == tasks[l[j]]
                           IN  /\ l[i] # l[j]
                               /\ Urgency(x.priority) >= Urgency(y.priority)
                               /\ x.priority = y.priority =>
                                     \/ y.dueDate = NoDueDate
                                     \/ x.dueDate # NoDueDate /\ x.dueDate <= y.dueDate


\* The delivery groups: the rooms the emitters address, one per user id.
DeliveryGroups == Users

\* C23: the members of a user's delivery group are exactly the open sockets
\* authenticated as that user, so an open socket is in one group, its own
\* user's, and a closed one in none; and while a socket stays open neither
\* its user nor its rooms change.
C23_OneGroupPerConnection ==
    [][/\ \A c \in DOMAIN sockets' :
             sockets'[c].rooms \cap DeliveryGroups = {sockets'[c].user.userId}
       /\ \A g \in DeliveryGroups :
             SocketsIn(g)' = {c \in DOMAIN sockets' : sockets'[c].user.userId = g}
       /\ \A c \in DOMAIN sockets \cap DOMAIN sockets' :
             /\ sockets'[c].user = sockets[c].user
             /\ sockets'[c].rooms = sockets[c].rooms]_vars

\* C23 witness: an ADMIN and a USER are connected, each the only member of
\* its own group.
C23_Witness ==
    /\ last.op = "connect"
    /\ last.result = "ok"
    /\ \E c, d \in DOMAIN sockets :
          /\ sockets[c].user.role = "ADMIN"
          /\ sockets[d].user.role = "USER"
          /\ SocketsIn(sockets[c].user.userId) = {c}
          /\ SocketsIn(sockets[d].user.userId) = {d}


\* C24: a notification enters the store unread; while it is stored its
\* recipient, type, title, message and resource never change; read changes
\* only from false to true, and only in a markAsRead or markAllAsRead of its
\* recipient.
C24_OnlyReadChanges ==
    [][/\ \A n \in DOMAIN notifications' \ DOMAIN notifications :
             ~notifications'[n].read
       /\ \A n \in DOMAIN notifications \cap DOMAIN notifications' :
             /\ [notifications'[n] EXCEPT !.read = FALSE]
                   = [notifications[n] EXCEPT !.read = FALSE]
             /\ notifications[n].read => notifications'[n].read
             /\ notifications'[n].read # notifications[n].read
                   => /\ last'.op \in {"markAsRead", "markAllAsRead"}
                      /\ last'.result = "ok"
                      /\ last'.userId = notifications[n].userId]_vars

\* C24 witness: the recipient has marked a notification as read: it is read
\* and otherwise as createNotification stored it.
C24_Witness ==
    /\ last.op = "markAsRead"
    /\ last.result = "ok"
    /\ last.notifId \in DOMAIN notifications
    /\ notifications[last.notifId].read
    /\ \E d \in NotificationInputs :
          /\ d.userId = last.userId
          /\ notifications[last.notifId] = [NotificationDoc(d) EXCEPT !.read = TRUE]


\* C25: after a createTask or updateTask that returned, the notifications it
\* created are stored, in the order created a TASK_ASSIGNED one never follows
\* a TASK_UPDATED one, and, with a server, the events it emitted are one
\* notification:new per notification, in that order, and then the task event.
C25_NotificationsBeforeTaskEvent ==
    (last.op \in {"createTask", "updateTask"} /\ last.result = "ok")
       => LET k == Len(last.notifs)
              type(i) == notifications[last.notifs[i]].type
          IN  /\ \A i \in 1..k : last.notifs[i] \in DOMAIN notifications
              /\ \A i, j \in 1..k :
                    i < j => /\ last.notifs[i] < last.notifs[j]
                             /\ ~(type(i) = "TASK_UPDATED" /\ type(j) = "TASK_ASSIGNED")
              /\ io => /\ Len(last.events) = k + 1
                       /\ \A i \in 1..k :
                             /\ last.events[i].name = "notification:new"
                             /\ last.events[i].payload.id = last.notifs[i]
                       /\ last.events[k + 1].name
                             = (IF last.op = "createTask" THEN "task:created"
                                ELSE "task:updated")

\* C25 witness: an update created a TASK_ASSIGNED and then a TASK_UPDATED
\* notification and emitted both before task:updated.
C25_Witness ==
    /\ Returned("updateTask")
    /\ Len(last.notifs) = 2
    /\ notifications[last.notifs[1]].type = "TASK_ASSIGNED"
    /\ notifications[last.notifs[2]].type = "TASK_UPDATED"
    /\ Len(last.events) = 3
    /\ last.events[3].name = "task:updated"


\* The tasks that were deleted: ids are handed out in order and never again.
Gone == {t \in 1..(nextTaskId - 1) : t \notin DOMAIN tasks}

\* C26: on a running server, where every deletion emits task:deleted, a step
\* stores no notification that refers to a task deleted before it and emits
\* no task:updated for such a task.
C26_NothingAfterDeleted ==
    [][\A t \in Gone :
          /\ \A n \in DOMAIN notifications' \ DOMAIN notifications :
                notifications'[n].resourceId # t
          /\ last' # last =>
                \A i \in 1..Len(last'.events) :
                   ~(last'.events[i].name = "task:updated"
                       /\ last'.events[i].payload.id = t)]_vars

\* C27: the write of an update lands only while its caller is the creator or
\* the assignee of the task as it is stored.
C27_WriterStillRelated ==
    [][\A r \in DOMAIN requests :
          (requests[r].wrote = 0 /\ requests'[r].wrote # 0)
             => canModify(tasks[requests[r].taskId], requests[r].userId)]_vars


Completes(r) ==
    /\ r \in DOMAIN requests
    /\ requests[r].wrote # 0
    /\ ~requests[r].returned
    /\ requests'[r].returned

\* C29: when an update takes the task away from the assignee it read (another
\* assignee or none), the notifications it creates are for the creator and
\* the assignee of the patched document, never for the caller, and none is
\* for the assignee it read unless that is the creator.
C29_RecipientsAfterPatch ==
    [][\A r \in DOMAIN requests :
          (/\ Completes(r)
           /\ requests[r].read.assignedToId \in Users
           /\ requests[r].doc.assignedToId # requests[r].read.assignedToId)
             => \A i \in 1..Len(last'.notifs) :
                   LET to == notifications'[last'.notifs[i]].userId
                   IN  /\ to \in {requests[r].doc.creatorId,
                                  requests[r].doc.assignedToId}
                       /\ to # requests[r].userId
                       /\ to = requests[r].read.assignedToId
                             => to = requests[r].doc.creatorId]_vars

\* C29 witness: the creator u1 took the task from u2 and gave it to u3; both
\* notifications of the update are for u3.
C29_Witness ==
    /\ Returned("updateTask")
    /\ Len(requests) = 1
    /\ requests[1].returned
    /\ requests[1].userId = "u1"
    /\ requests[1].read.assignedToId = "u2"
    /\ requests[1].doc.assignedToId = "u3"
    /\ Len(last.notifs) = 2
    /\ \A i \in 1..2 : notifications[last.notifs[i]].userId = "u3"


\* C30: a createTask or updateTask that reports a failure leaves the task
\* store as it was; and one that changes the task store returns, having
\* stored every notification that is due.
C30_AllOrNothing ==
    [][/\ (last'.op \in {"createTask", "updateTask"} /\ last'.result # "ok")
             => tasks' = tasks
       /\ tasks' # tasks
             => /\ last'.op \in {"createTask", "updateTask"}
                /\ last'.result = "ok"
                /\ \A u \in Users :
                      (/\ u \in {tasks'[last'.taskId].creatorId,
                                 tasks'[last'.taskId].assignedToId}
                       /\ u # last'.userId
                       /\ last'.op = "updateTask")
                         => \E i \in 1..Len(last'.notifs) :
                               /\ notifications'[last'.notifs[i]].userId = u
                               /\ notifications'[last'.notifs[i]].type
                                     = "TASK_UPDATED"]_vars

====
